---- MODULE Spec2Model ----
(***************************************************************************)
(* Model of src/src/block.tsx: the Block component (a 3D solar system), its *)
(* two pieces of React state, the completion timer of its mount effect, the *)
(* per-frame callbacks of Sun, Planet and SaturnRings, and the camera rig.  *)
(*                                                                          *)
(* Units.  Time is in milliseconds.  The slider value and the multiplier    *)
(* are counted in slider steps of 0.1 (1.0 is 10).  planetData speeds are   *)
(* in thousandths (0.02 is 20), sizes in hundredths (0.1 is 10).  A speed    *)
(* prop (planet.speed * animationSpeed) is therefore in units of 1e-4, and  *)
(* a pivot angle (elapsed ms * speed prop) in units of 1e-7 rad.  Spin       *)
(* angles are in thousandths of a radian.  All products are exact integers; *)
(* IEEE rounding of the JavaScript doubles is not modelled.                 *)
(***************************************************************************)
EXTENDS Integers, Sequences, FiniteSets, TLC

VARIABLES
    now,            \* wall-clock time, ms
    mountedAt,      \* time at which Block mounted (clock start, timer start)
    mounted,        \* Block is mounted
    windowParent,   \* what window.parent is: "parent" (embedded) or "window"
    title,          \* the title prop given by the embedding code
    animationSpeed, \* useState(1), in slider steps
    showOrbits,     \* useState(true)
    lastSlider,     \* thumb position of the latest slider change, in steps
    timers,         \* the browser's pending timeouts: set of [id, due]
    timer,          \* the handle the mount effect's closure holds
    fired,          \* number of times the timeout callback has run
    inflight,       \* posted messages not yet dispatched: Seq([target, data])
    received,       \* messages dispatched, per context
    panel,          \* what ControlPanel last rendered
    scene,          \* what Block last rendered into the Canvas
    elapsedTime,    \* clock.elapsedTime as of the last frame, ms
    frames,         \* frames rendered so far
    sunSpin,        \* sunRef.current.rotation.y
    bodies,         \* per planet: [pivot, spin] (planetRef / meshRef rotation.y)
    ringsPivot,     \* ringsRef.current.rotation.y
    camera          \* OrbitControls state: [targetX, radius2, azimuth]

vars == <<now, mountedAt, mounted, windowParent, title, animationSpeed,
          showOrbits, lastSlider, timers, timer, fired, inflight, received,
          panel, scene, elapsedTime, frames, sunSpin, bodies, ringsPivot,
          camera>>

appVars == <<now, mountedAt, mounted, windowParent, title, animationSpeed,
             showOrbits, lastSlider, timers, timer, fired, inflight, received,
             panel, scene, elapsedTime, frames, sunSpin, bodies, ringsPivot>>

-----------------------------------------------------------------------------
(* Bounds of the model *)

TickMs == 500       \* granularity of time
MaxNow == 4000      \* time stops advancing here
MaxFrames == 2      \* frames rendered at most
MaxFired == 2       \* the timeout callback runs at most this often
SliderStride == 25  \* the slider positions tried are the multiples of this
MaxPan == 10        \* the camera target is panned at most this far
ZoomScaleSq == 10   \* square of the dolly factor of one zoom step

-----------------------------------------------------------------------------
(* Program constants *)

Delay == 2000               \* setTimeout(..., 2000)
StepsPerUnit == 10          \* step="0.1"
SliderMinUnits == 0         \* min="0"
SliderMaxUnits == 5         \* max="5"
InitialSpeedUnits == 1      \* useState(1)
SunSpinStep == 10           \* rotation.y += 0.01
PlanetSpinStep == 20        \* rotation.y += 0.02
RingSpeed == 4              \* clock.getElapsedTime() * 0.004
MinDistance == 5            \* minDistance={5}
MaxDistance == 50           \* maxDistance={50}
CameraY == 5                \* camera position [0, 5, 15]
CameraZ == 15

SliderMin == SliderMinUnits * StepsPerUnit
SliderMax == SliderMaxUnits * StepsPerUnit

planetDataReordered ==
    << [name |-> "Jupiter", size |-> 50, distance |-> 7,  color |-> "#D8CA9D", speed |-> 5],
       [name |-> "Saturn",  size |-> 40, distance |-> 9,  color |-> "#FAD5A5", speed |-> 4],
       [name |-> "Uranus",  size |-> 25, distance |-> 11, color |-> "#4FD0E7", speed |-> 3],
       [name |-> "Neptune", size |-> 24, distance |-> 13, color |-> "#4B70DD", speed |-> 2],
       [name |-> "Earth",   size |-> 16, distance |-> 4,  color |-> "#6B93D6", speed |-> 10],
       [name |-> "Venus",   size |-> 15, distance |-> 3,  color |-> "#FFC649", speed |-> 15],
       [name |-> "Mars",    size |-> 12, distance |-> 5,  color |-> "#CD5C5C", speed |-> 8],
       [name |-> "Mercury", size |-> 10, distance |-> 2,  color |-> "#8C7853", speed |-> 20] >>

planetData ==
    << [name |-> "Mercury", size |-> 10, distance |-> 2,  color |-> "#8C7853", speed |-> 20],
       [name |-> "Venus",   size |-> 15, distance |-> 3,  color |-> "#FFC649", speed |-> 15],
       [name |-> "Earth",   size |-> 16, distance |-> 4,  color |-> "#6B93D6", speed |-> 10],
       [name |-> "Mars",    size |-> 12, distance |-> 5,  color |-> "#CD5C5C", speed |-> 8],
       [name |-> "Jupiter", size |-> 50, distance |-> 7,  color |-> "#D8CA9D", speed |-> 5],
       [name |-> "Saturn",  size |-> 40, distance |-> 9,  color |-> "#FAD5A5", speed |-> 4],
       [name |-> "Uranus",  size |-> 25, distance |-> 11, color |-> "#4FD0E7", speed |-> 3],
       [name |-> "Neptune", size |-> 24, distance |-> 13, color |-> "#4B70DD", speed |-> 2] >>

CompletionMessage ==
    [type |-> "BLOCK_COMPLETION", blockId |-> "solar-system-3d", completed |-> TRUE]

Contexts == {"window", "parent"}

Titles == {"3D Solar System", "Planets"}

-----------------------------------------------------------------------------
(* Strings of the range input and the label, as sequences of characters *)

Digits == <<"0", "1", "2", "3", "4", "5", "6", "7", "8", "9">>

Digit(n) == Digits[n + 1]

DigitVal(c) == CHOOSE n \in 0..9 : Digits[n + 1] = c

RECURSIVE NatString(_)
NatString(n) ==
    IF n < 10 THEN <<Digit(n)>> ELSE Append(NatString(n \div 10), Digit(n % 10))

\* The value string of a number given in steps: "2.5", "3", "0.1".  This is
\* both the range input's e.target.value and String(animationSpeed).
NumberString(v) ==
    IF v % StepsPerUnit = 0
    THEN NatString(v \div StepsPerUnit)
    ELSE NatString(v \div StepsPerUnit) \o <<".", Digit(v % StepsPerUnit)>>

\* animationSpeed.toFixed(1) followed by "x"
SpeedLabel(v) ==
    NatString(v \div StepsPerUnit) \o <<".", Digit(v % StepsPerUnit), "x">>

\* Length of the leading run of decimal digits of s
RECURSIVE DigitRun(_)
DigitRun(s) ==
    IF s = <<>> \/ Head(s) \notin {Digits[i] : i \in 1..10}
    THEN 0
    ELSE 1 + DigitRun(Tail(s))

RECURSIVE DigitsValue(_)
DigitsValue(s) ==
    IF s = <<>> THEN 0 ELSE DigitsValue(SubSeq(s, 1, Len(s) - 1)) * 10 + DigitVal(s[Len(s)])

\* parseInt in place of parseFloat: the fraction is dropped
ParseInt(s) ==
    DigitsValue(SubSeq(s, 1, DigitRun(s))) * StepsPerUnit

\* parseFloat of a value string with at most one fractional digit, in steps
ParseFloat(s) ==
    LET n == DigitRun(s)
        frac == IF Len(s) >= n + 2 /\ s[n + 1] = "."
                    /\ s[n + 2] \in {Digits[i] : i \in 1..10}
                THEN DigitVal(s[n + 2])
                ELSE 0
    IN  DigitsValue(SubSeq(s, 1, n)) * StepsPerUnit + frac

\* The positions the range input can report: min, min + step, ..., max
SliderPositions == SliderMin..SliderMax

SliderValues == {v \in SliderPositions : v % SliderStride = 0}

-----------------------------------------------------------------------------
(* Rendering *)

SunRender == [geometry |-> "sphere", label |-> "Sun"]

PlanetRender(name, size, distance, color, speed) ==
    [name |-> name, size |-> size, distance |-> distance, color |-> color,
     speed |-> speed,
     orbitLine |-> <<[geometry |-> "ring", radius |-> distance]>>]

SaturnRingsRender(distance) == [geometry |-> "ring", distance |-> distance]

\* speed={planet.speed} : the multiplier is not applied
SpeedPropUnscaled(planet, speed) == planet.speed * StepsPerUnit

\* speed={planet.speed * animationSpeed}
SpeedProp(planet, speed) == planet.speed * speed

\* every large planet gets rings
HasRingsBySize(planet) == planet.size >= 40

\* planet.name === 'Saturn'
HasRings(planet) == planet.name = "Saturn"

Fragment(planet, speed) ==
    [key |-> planet.name,
     planet |-> PlanetRender(planet.name, planet.size, planet.distance,
                             planet.color, SpeedProp(planet, speed)),
     rings |-> IF HasRings(planet)
               THEN <<SaturnRingsRender(planet.distance)>>
               ELSE <<>>]

OrbitControlsRender ==
    [enablePan |-> TRUE, enableZoom |-> TRUE, enableRotate |-> TRUE,
     minDistance |-> MinDistance, maxDistance |-> MaxDistance,
     autoRotate |-> FALSE]

\* the orbit line is rendered only when the flag is set
BlockRenderGated(speed, show) ==
    [suns |-> <<SunRender>>,
     fragments |-> [i \in 1..Len(planetData) |->
                      LET f == Fragment(planetData[i], speed)
                      IN  IF show THEN f
                          ELSE [f EXCEPT !.planet.orbitLine = <<>>]],
     controls |-> OrbitControlsRender]

\* The children of the Canvas element
BlockRender(speed, show) ==
    [suns |-> <<SunRender>>,
     fragments |-> [i \in 1..Len(planetData) |-> Fragment(planetData[i], speed)],
     controls |-> OrbitControlsRender]

ControlPanelRender(speed, show) ==
    [label |-> SpeedLabel(speed), value |-> NumberString(speed), checked |-> show]

Unrendered == [suns |-> <<>>, fragments |-> <<>>, controls |-> <<>>]

NoPanel == [label |-> <<>>, value |-> <<>>, checked |-> FALSE]

-----------------------------------------------------------------------------
(* The mount effect and its timer *)

\* no dependency array: the effect runs after every render
EffectRunsAlways(firstRender) == TRUE

\* useEffect(..., []) runs after the first render only
EffectRuns(firstRender) == firstRender

\* the cleanup does not cancel the timeout
ClearTimeoutNoop(ts, id) == ts

ClearTimeout(ts, id) == {t \in ts : t.id # id}

FreshTimerId(ts, held) ==
    CHOOSE n \in 1..(Cardinality(ts) + 2) :
        /\ n # held
        /\ \A t \in ts : t.id # n
        /\ \A k \in 1..(n - 1) : k = held \/ \E t \in ts : t.id = k

\* What committing a render does to the timers
CommitEffects(firstRender) ==
    IF EffectRuns(firstRender)
    THEN LET cleaned == IF firstRender THEN timers ELSE ClearTimeout(timers, timer)
             id == FreshTimerId(cleaned, timer)
         IN  /\ timers' = cleaned \cup {[id |-> id, due |-> now + Delay]}
             /\ timer' = id
    ELSE UNCHANGED <<timers, timer>>

\* A re-render of Block with the given state
Rerender(speed, show) ==
    /\ scene' = BlockRender(speed, show)
    /\ panel' = ControlPanelRender(speed, show)
    /\ CommitEffects(FALSE)

-----------------------------------------------------------------------------
(* The camera rig *)

InitialRadius2 == CameraY * CameraY + CameraZ * CameraZ

MinRadius2 == MinDistance * MinDistance

MaxRadius2 == MaxDistance * MaxDistance

\* spherical.radius clamped to [minDistance, maxDistance], on squares
ClampRadius2(r2) ==
    IF r2 < MinRadius2 THEN MinRadius2
    ELSE IF r2 > MaxRadius2 THEN MaxRadius2 ELSE r2

\* Squared distance of the camera from the scene origin.  The offset from the
\* target lies in the y-z plane (azimuth 0 or 180 degrees) and the target on
\* the x axis, so the two are perpendicular.
OriginDist2 == camera.targetX * camera.targetX + camera.radius2

-----------------------------------------------------------------------------

Init ==
    /\ now \in {0, TickMs}
    /\ mountedAt = now
    /\ mounted = TRUE
    /\ windowParent \in Contexts
    /\ title \in Titles
    /\ animationSpeed = InitialSpeedUnits * StepsPerUnit
    /\ showOrbits = TRUE
    /\ lastSlider = animationSpeed
    /\ timers = {[id |-> 1, due |-> now + Delay]}
    /\ timer = 1
    /\ fired = 0
    /\ inflight = <<>>
    /\ received = [c \in Contexts |-> <<>>]
    /\ panel = ControlPanelRender(animationSpeed, showOrbits)
    /\ scene = BlockRender(animationSpeed, showOrbits)
    /\ elapsedTime = 0
    /\ frames = 0
    /\ sunSpin = 0
    /\ bodies = [i \in 1..Len(planetData) |-> [pivot |-> 0, spin |-> 0]]
    /\ ringsPivot = 0
    /\ camera = [targetX |-> 0, radius2 |-> InitialRadius2, azimuth |-> 0]

\* Time passes
Tick ==
    /\ now + TickMs <= MaxNow
    /\ now' = now + TickMs
    /\ UNCHANGED <<mountedAt, mounted, windowParent, title, animationSpeed,
                   showOrbits, lastSlider, timers, timer, fired, inflight,
                   received, panel, scene, elapsedTime, frames, sunSpin,
                   bodies, ringsPivot, camera>>

\* The user moves the slider to position v: onChange, then the re-render
SliderChange(v) ==
    /\ mounted
    /\ NumberString(v) # panel.value
    /\ lastSlider' = v
    /\ animationSpeed' = ParseFloat(NumberString(v))
    /\ Rerender(animationSpeed', showOrbits)
    /\ UNCHANGED <<now, mountedAt, mounted, windowParent, title, showOrbits,
                   fired, inflight, received, elapsedTime, frames, sunSpin,
                   bodies, ringsPivot, camera>>

\* The user clicks the checkbox: onChange with the new checked state
ToggleOrbits ==
    /\ mounted
    /\ showOrbits' = ~panel.checked
    /\ Rerender(animationSpeed, showOrbits')
    /\ UNCHANGED <<now, mountedAt, mounted, windowParent, title,
                   animationSpeed, lastSlider, fired, inflight, received,
                   elapsedTime, frames, sunSpin, bodies, ringsPivot, camera>>

\* The embedding code renders Block again with another title
PropsChange(t) ==
    /\ mounted
    /\ t # title
    /\ title' = t
    /\ Rerender(animationSpeed, showOrbits)
    /\ UNCHANGED <<now, mountedAt, mounted, windowParent, animationSpeed,
                   showOrbits, lastSlider, fired, inflight, received,
                   elapsedTime, frames, sunSpin, bodies, ringsPivot, camera>>

\* the rings follow the multiplier like the planet does
RingsAngleScaled(t) == t * RingSpeed * animationSpeed

\* SaturnRings: clock.getElapsedTime() * 0.004
RingsAngle(t) == t * RingSpeed * StepsPerUnit

\* Planet: clock.getElapsedTime() * speed
PlanetAngle(t, speed) == t * speed

\* One rendered frame: every useFrame callback runs
Frame ==
    /\ mounted
    /\ frames < MaxFrames
    /\ frames' = frames + 1
    /\ elapsedTime' = now - mountedAt
    /\ sunSpin' = sunSpin + SunSpinStep
    /\ bodies' = [i \in DOMAIN bodies |->
                    [pivot |-> PlanetAngle(elapsedTime', scene.fragments[i].planet.speed),
                     spin |-> bodies[i].spin + PlanetSpinStep]]
    /\ ringsPivot' = IF \E i \in DOMAIN scene.fragments : scene.fragments[i].rings # <<>>
                     THEN RingsAngle(elapsedTime')
                     ELSE ringsPivot
    /\ UNCHANGED <<now, mountedAt, mounted, windowParent, title, animationSpeed,
                   showOrbits, lastSlider, timers, timer, fired, inflight,
                   received, panel, scene, camera>>

\* A due timeout runs its callback: the two postMessage calls
TimerFire ==
    /\ fired < MaxFired
    /\ \E t \in timers :
        /\ t.due <= now
        /\ timers' = timers \ {t}
    /\ fired' = fired + 1
    /\ inflight' = inflight \o <<[target |-> "window", data |-> CompletionMessage],
                                 [target |-> windowParent, data |-> CompletionMessage]>>
    /\ UNCHANGED <<now, mountedAt, mounted, windowParent, title, animationSpeed,
                   showOrbits, lastSlider, timer, received, panel, scene,
                   elapsedTime, frames, sunSpin, bodies, ringsPivot, camera>>

\* A posted message is dispatched to its target's listeners
Deliver ==
    /\ inflight # <<>>
    /\ received' = [received EXCEPT ![Head(inflight).target] =
                        Append(@, Head(inflight).data)]
    /\ inflight' = Tail(inflight)
    /\ UNCHANGED <<now, mountedAt, mounted, windowParent, title, animationSpeed,
                   showOrbits, lastSlider, timers, timer, fired, panel, scene,
                   elapsedTime, frames, sunSpin, bodies, ringsPivot, camera>>

\* Block unmounts: the effect's cleanup runs and the tree is removed
Unmount ==
    /\ mounted
    /\ mounted' = FALSE
    /\ timers' = ClearTimeout(timers, timer)
    /\ scene' = Unrendered
    /\ panel' = NoPanel
    /\ UNCHANGED <<now, mountedAt, windowParent, title, animationSpeed,
                   showOrbits, lastSlider, timer, fired, inflight, received,
                   elapsedTime, frames, sunSpin, bodies, ringsPivot, camera>>

Next ==
    \/ Tick
    \/ \E v \in SliderValues : SliderChange(v)
    \/ ToggleOrbits
    \/ \E t \in Titles : PropsChange(t)
    \/ Frame
    \/ TimerFire
    \/ Deliver
    \/ Unmount

Spec == Init /\ [][Next]_vars

\* Time advances and a due timeout is eventually run by the event loop
FairSpec == Spec /\ WF_vars(Tick) /\ WF_vars(TimerFire)

-----------------------------------------------------------------------------
(* Camera interactions of OrbitControls *)

\* Scroll: dolly out (TRUE) or in, then clamp the radius
Zoom(out) ==
    /\ scene.controls.enableZoom
    /\ camera' = [camera EXCEPT !.radius2 =
                    ClampRadius2(IF out THEN @ * ZoomScaleSq ELSE @ \div ZoomScaleSq)]
    /\ UNCHANGED appVars

\* Drag: orbit half a turn about the target; the radius is kept
Rotate ==
    /\ scene.controls.enableRotate
    /\ camera' = [camera EXCEPT !.azimuth = (@ + 180) % 360]
    /\ UNCHANGED appVars

\* Right-drag: the target, and the camera with it, moves sideways by d
Pan(d) ==
    /\ scene.controls.enablePan
    /\ camera.targetX + d \in -MaxPan..MaxPan
    /\ camera' = [camera EXCEPT !.targetX = @ + d]
    /\ UNCHANGED appVars

CameraNext ==
    \/ \E out \in BOOLEAN : Zoom(out)
    \/ Rotate
    \/ \E d \in {-1, 1} : Pan(d)

CameraSpec == Init /\ [][CameraNext]_vars

-----------------------------------------------------------------------------
(* Properties *)

PlanetIndices == 1..8

\* Number of completion messages posted so far
Sent == Len(inflight) + Len(received["window"]) + Len(received["parent"])

C2_UnmountCancels ==
    [][ /\ (~mounted' => timers' = {} /\ fired' = fired /\ Sent' = Sent)
        /\ (mounted /\ ~mounted' /\ timers # {} => fired' = 0) ]_vars

\* C2 witness: unmounted with the timer pending, and the due time has passed
\* without a broadcast
C2_Witness ==
    ~mounted /\ fired = 0 /\ Sent = 0 /\ timers = {} /\ now - mountedAt >= 2000

\* C3: after every frame each planet's pivot angle is
\* elapsed time * base speed * current multiplier, whatever happened before.
C3_OrbitalAngle ==
    [][frames' # frames =>
         \A i \in PlanetIndices :
            bodies'[i].pivot = elapsedTime' * planetData[i].speed * animationSpeed']_vars

\* C3 witness: a second frame, rendered after the multiplier was changed
C3_Witness ==
    /\ frames >= 2 /\ elapsedTime >= 1000 /\ animationSpeed = 25
    /\ bodies[3].pivot = elapsedTime * 10 * 25

\* C4: the multiplier is 1 on mount, always equals the value of the latest
\* slider change, and lies in [0, 5].
C4_SliderExact ==
    /\ animationSpeed = 10
    /\ [](animationSpeed = lastSlider /\ animationSpeed >= 0 /\ animationSpeed <= 50)

\* C4 witness: the slider was moved to 2.5
C4_Witness == lastSlider = 25 /\ animationSpeed = 25 /\ panel.value = <<"2", ".", "5">>

\* The orbit rings the scene holds: planet name and ring radius
RenderedOrbitRings ==
    UNION {{[planet |-> scene.fragments[i].key,
             radius |-> scene.fragments[i].planet.orbitLine[j].radius] :
                j \in DOMAIN scene.fragments[i].planet.orbitLine} :
           i \in DOMAIN scene.fragments}

AllOrbitRings ==
    {[planet |-> "Mercury", radius |-> 2], [planet |-> "Venus", radius |-> 3],
     [planet |-> "Earth", radius |-> 4], [planet |-> "Mars", radius |-> 5],
     [planet |-> "Jupiter", radius |-> 7], [planet |-> "Saturn", radius |-> 9],
     [planet |-> "Uranus", radius |-> 11], [planet |-> "Neptune", radius |-> 13]}

\* C5: every render holds the orbit ring of each of the 8 planets, whatever
\* the flag is, and a checkbox toggle changes only the flag (and the
\* checkbox that shows it).
C5_OrbitLinesNotGated ==
    /\ [](mounted => RenderedOrbitRings = AllOrbitRings)
    /\ [][showOrbits' # showOrbits =>
            /\ scene' = scene
            /\ panel' = [panel EXCEPT !.checked = showOrbits']
            /\ UNCHANGED <<now, mountedAt, mounted, windowParent, title,
                           animationSpeed, lastSlider, timers, timer, fired,
                           inflight, received, elapsedTime, frames, sunSpin,
                           bodies, ringsPivot, camera>>]_vars

\* C5 witness: the flag is off and all 8 orbit rings are rendered
C5_Witness ==
    mounted /\ ~showOrbits /\ ~panel.checked /\ Cardinality(RenderedOrbitRings) = 8

\* C6: every render holds exactly one Sun and the 8 planets in table order.
C6_SunAndPlanets ==
    mounted =>
        /\ Len(scene.suns) = 1
        /\ [i \in DOMAIN scene.fragments |-> scene.fragments[i].planet.name]
             = <<"Mercury", "Venus", "Earth", "Mars",
                 "Jupiter", "Saturn", "Uranus", "Neptune">>

\* C6 witness: a render after the broadcast, with multiplier 0 and the flag off
C6_Witness ==
    /\ mounted /\ fired = 1 /\ animationSpeed = 0 /\ ~showOrbits
    /\ Len(scene.fragments) = 8 /\ scene.fragments[8].planet.name = "Neptune"

\* C7: every render holds exactly one SaturnRings, in Saturn's fragment, with
\* Saturn's distance 9.
C7_OneRing ==
    mounted =>
        /\ {i \in DOMAIN scene.fragments : scene.fragments[i].rings # <<>>} = {6}
        /\ scene.fragments[6].key = "Saturn"
        /\ scene.fragments[6].planet.name = "Saturn"
        /\ scene.fragments[6].rings = <<[geometry |-> "ring", distance |-> 9]>>

\* C7 witness: a re-render after a slider change holds Saturn's rings
C7_Witness ==
    /\ mounted /\ animationSpeed = 50 /\ ~showOrbits
    /\ Len(scene.fragments[6].rings) = 1

\* C8: after every frame the rings' pivot angle is elapsed time * 0.004,
\* whatever the multiplier, while Saturn's is elapsed time * 0.004 * m.
C8_RingsDecoupled ==
    [][frames' # frames =>
         /\ ringsPivot' = elapsedTime' * 4 * 10
         /\ bodies'[6].pivot = elapsedTime' * 4 * animationSpeed']_vars

\* C8 witness: with multiplier 2.5 the rings and Saturn have drifted apart
C8_Witness ==
    /\ frames > 0 /\ elapsedTime >= 1000 /\ animationSpeed = 25
    /\ ringsPivot = elapsedTime * 40
    /\ bodies[6].pivot = elapsedTime * 100
    /\ ringsPivot # bodies[6].pivot

\* C9: the camera's distance from the scene origin stays within [5, 50]
\* under zoom, rotate and pan.
C9_DistanceFromOrigin ==
    5 * 5 <= OriginDist2 /\ OriginDist2 <= 50 * 50

\* C10: no context receives the completion message more than once, and once
\* everything posted is dispatched the window and its parent each hold it
\* exactly once.
C10_OncePerContext ==
    /\ \A c \in Contexts : Len(received[c]) <= 1
    /\ (fired = 1 /\ inflight = <<>> =>
            /\ received["window"] = <<CompletionMessage>>
            /\ received[windowParent] = <<CompletionMessage>>)

====
